---- MODULE Spec2Model ----
(***************************************************************************)
(* Model of the document sanitizer service:                                *)
(*   python_service/services/sanitizer.py   table_to_markdown,             *)
(*                                          sanitize_pdf, sanitize_docx,   *)
(*                                          sanitize_file                  *)
(*   python_service/main_grpc_server.py     SanitizerService               *)
(*                                          .SanitizeDocument, serve       *)
(*                                                                         *)
(* A Python str is a sequence of one-character strings.  The bytes of a    *)
(* request are abstracted by what the program can observe of them: their   *)
(* length, whether the parsing library raises on them (and which exception *)
(* class), and the ordered items the library yields for them.              *)
(***************************************************************************)
EXTENDS Integers, Sequences, FiniteSets, TLC

VARIABLES
    \* one SanitizeDocument call seen from its caller
    request,        \* the request of the last call
    response,       \* what the call handed back
    context,        \* the grpc context of the call
    trace,          \* the functions of sanitizer.py the call entered, in order
    \* one table_to_markdown call
    table,          \* the TableItem (as its dataframe)
    markdown_str,   \* the string returned
    \* the server started by serve()
    status,         \* status[r]: where request r is
    idle,           \* the number of pool threads holding no work item
    work_queue,     \* the executor's FIFO work queue
    responses       \* responses[r]: the response sent for r

vars == <<request, response, context, trace, table, markdown_str,
          status, idle, work_queue, responses>>

callVars == <<request, response, context, trace>>
tableVars == <<table, markdown_str>>
poolVars == <<status, idle, work_queue, responses>>

----------------------------------------------------------------------------
(* Bounds *)

MaxItems == 2      \* items in a document
MaxCols == 2       \* columns of an enumerated table
MaxRows == 2       \* data rows of an enumerated table
ExtraRequests == 2 \* requests beyond the number of pool threads

----------------------------------------------------------------------------
(* Python str and list helpers *)

RECURSIVE Join(_, _)
\* sep.join(parts)
Join(sep, parts) ==
    IF parts = <<>> THEN <<>>
    ELSE IF Len(parts) = 1 THEN parts[1]
    ELSE parts[1] \o sep \o Join(sep, Tail(parts))

RECURSIVE Repeat(_, _)
\* s * n
Repeat(s, n) == IF n <= 0 THEN <<>> ELSE s \o Repeat(s, n - 1)

RECURSIVE SeqsUpTo(_, _)
\* all sequences over S of length at most n
SeqsUpTo(S, n) ==
    IF n = 0 THEN {<<>>}
    ELSE LET shorter == SeqsUpTo(S, n - 1)
         IN  shorter \cup {Append(s, x) : s \in shorter, x \in S}

\* all sequences over S of length exactly n
SeqsOfLen(S, n) == {s \in SeqsUpTo(S, n) : Len(s) = n}

----------------------------------------------------------------------------
(* sanitizer.py *)

\* df = table.export_to_dataframe(): the column labels and the rows of cells
ExampleTable ==
    [columns |-> << <<"a">>, <<"b">> >>,
     rows    |-> << << <<"1">>, <<"2">> >>, << <<"3">>, <<"4">> >> >>]

HeaderCells == { <<"h">>, <<"x", "y">>, <<>> }
DataCells == { <<>>, <<"7">> }

Tables ==
    {ExampleTable} \cup
    UNION { { [columns |-> h, rows |-> rs] :
                h \in SeqsOfLen(HeaderCells, n),
                rs \in SeqsUpTo(SeqsOfLen(DataCells, n), MaxRows) } :
            n \in 1..MaxCols }

RECURSIVE RowLines(_)
\* for _, row in df.iterrows(): markdown_str += "| " + " | ".join(row) + " |\n"
RowLines(rows) ==
    IF rows = <<>> THEN <<>>
    ELSE <<"|", " ">> \o Join(<<" ", "|", " ">>, rows[1]) \o <<" ", "|", "\n">>
         \o RowLines(Tail(rows))

\* table_to_markdown whose separator is written for two columns
table_to_markdown_two_columns(t) ==
    <<"|", " ">> \o Join(<<" ", "|", " ">>, t.columns) \o <<" ", "|", "\n">>
    \o Repeat(<<"|", "-", "-", "-">>, 2) \o <<"|", "\n">>
    \o RowLines(t.rows)

table_to_markdown(t) ==
    <<"|", " ">> \o Join(<<" ", "|", " ">>, t.columns) \o <<" ", "|", "\n">>
    \o Repeat(<<"|", "-", "-", "-">>, Len(t.columns)) \o <<"|", "\n">>
    \o RowLines(t.rows)

\* what iterate_items() / doc.paragraphs can yield
NoTable == [columns |-> <<>>, rows |-> <<>>]
TextItem(text) == [kind |-> "TextItem", text |-> text, table |-> NoTable]
TableItem(t) == [kind |-> "TableItem", text |-> <<>>, table |-> t]
PictureItem == [kind |-> "PictureItem", text |-> <<>>, table |-> NoTable]

\* the horizontal rule sanitize_pdf puts on each side of a table
Rule == <<"\n", "\n", "-", "-", "-", "\n", "\n">>
BlankLine == <<"\n", "\n">>

\* the outcome of a Python call: a value returned or an exception raised,
\* and the functions entered on the way
Return(value, calls) ==
    [raised |-> "none", value |-> value, message |-> "", calls |-> calls]
Raise(class, message, calls) ==
    [raised |-> class, value |-> <<>>, message |-> message, calls |-> calls]

RECURSIVE PdfParts(_)
\* the loop over conv_res.document.iterate_items(): output_parts
PdfParts(items) ==
    IF items = <<>> THEN <<>>
    ELSE LET item == items[1]
             parts == IF item.kind = "TextItem" THEN << item.text >>
                      ELSE IF item.kind = "TableItem"
                           THEN << Rule, table_to_markdown(item.table), Rule >>
                           ELSE <<>>
         IN  parts \o PdfParts(Tail(items))

RECURSIVE PdfCalls(_)
\* one table_to_markdown call per TableItem, in order
PdfCalls(items) ==
    IF items = <<>> THEN <<>>
    ELSE (IF items[1].kind = "TableItem" THEN <<"table_to_markdown">> ELSE <<>>)
         \o PdfCalls(Tail(items))

sanitize_pdf(file_bytes) ==
    IF file_bytes.fault # "none"
    THEN Raise(file_bytes.fault, "conversion failed", <<"sanitize_pdf">>)
    ELSE Return(Join(BlankLine, PdfParts(file_bytes.items)),
                <<"sanitize_pdf">> \o PdfCalls(file_bytes.items))

RECURSIVE Paragraphs(_)
\* doc.paragraphs: the text of the body paragraphs, in document order
Paragraphs(items) ==
    IF items = <<>> THEN <<>>
    ELSE (IF items[1].kind = "TextItem" THEN << items[1].text >> ELSE <<>>)
         \o Paragraphs(Tail(items))

sanitize_docx(file_bytes) ==
    IF file_bytes.fault # "none"
    THEN Raise(file_bytes.fault, "not a Word file", <<"sanitize_docx">>)
    ELSE Return(Join(BlankLine, Paragraphs(file_bytes.items)), <<"sanitize_docx">>)

PDF == "application/pdf"
DOCX == "application/vnd.openxmlformats-officedocument.wordprocessingml.document"
TEXT == "text/plain"

\* prepend the caller to the calls of an outcome
Entered(name, outcome) == [outcome EXCEPT !.calls = <<name>> \o @]

\* sanitize_file whose last branch is the PDF extractor
sanitize_file_else_pdf(file_data, file_type) ==
    IF file_type = DOCX
    THEN Entered("sanitize_file", sanitize_docx(file_data))
    ELSE Entered("sanitize_file", sanitize_pdf(file_data))

\* sanitize_file with a text/plain branch: the paragraphs in a fenced block
sanitize_file_with_text(file_data, file_type) ==
    IF file_type = PDF
    THEN Entered("sanitize_file", sanitize_pdf(file_data))
    ELSE IF file_type = DOCX
    THEN Entered("sanitize_file", sanitize_docx(file_data))
    ELSE IF file_type = TEXT
    THEN Return(<<"~", "~", "~", "\n">> \o Join(BlankLine, Paragraphs(file_data.items))
                \o <<"\n", "~", "~", "~">>, <<"sanitize_file">>)
    ELSE Raise("ValueError", "Unsupported file type", <<"sanitize_file">>)

sanitize_file(file_data, file_type) ==
    IF file_type = PDF
    THEN Entered("sanitize_file", sanitize_pdf(file_data))
    ELSE IF file_type = DOCX
    THEN Entered("sanitize_file", sanitize_docx(file_data))
    ELSE Raise("ValueError", "Unsupported file type", <<"sanitize_file">>)

----------------------------------------------------------------------------
(* main_grpc_server.py: SanitizerService.SanitizeDocument *)

\* the classes an exception class is an instance of
Classes(class) ==
    CASE class = "ValueError" -> {"ValueError", "Exception", "BaseException"}
      [] class = "UnicodeDecodeError" ->
            {"UnicodeDecodeError", "ValueError", "Exception", "BaseException"}
      [] class = "RuntimeError" -> {"RuntimeError", "Exception", "BaseException"}
      [] OTHER -> {class, "BaseException"}

\* the context grpc makes for a call: the set_code and set_details calls on it
NewContext == [codes |-> <<>>, details |-> <<>>]
set_code(ctx, code) == [ctx EXCEPT !.codes = Append(@, code)]
set_details(ctx, details) == [ctx EXCEPT !.details = Append(@, details)]

\* what a call of the handler leaves: the SanitizeResponse returned (or the
\* exception that left the handler), the context and the functions entered
Handled(state, markdown, ctx, calls) ==
    [response |-> [state |-> state, markdown |-> markdown],
     context |-> ctx, trace |-> calls]

\* SanitizeDocument without the "except Exception" clause
SanitizeDocument_no_catch_all(req, ctx) ==
    LET r == sanitize_file(req.file_data, req.file_type)
    IN  IF r.raised = "none"
        THEN Handled("returned", r.value, ctx, r.calls)
        ELSE IF "ValueError" \in Classes(r.raised)
        THEN Handled("returned", <<>>,
                     set_details(set_code(ctx, "INVALID_ARGUMENT"), <<r.message>>),
                     r.calls)
        ELSE Handled("raised", <<>>, ctx, r.calls)

\* SanitizeDocument whose "except Exception" clause sets no details
SanitizeDocument_no_details(req, ctx) ==
    LET r == sanitize_file(req.file_data, req.file_type)
    IN  IF r.raised = "none"
        THEN Handled("returned", r.value, ctx, r.calls)
        ELSE IF "ValueError" \in Classes(r.raised)
        THEN Handled("returned", <<>>,
                     set_details(set_code(ctx, "INVALID_ARGUMENT"), <<r.message>>),
                     r.calls)
        ELSE Handled("returned", <<>>, set_code(ctx, "INTERNAL"), r.calls)

SanitizeDocument(req, ctx) ==
    LET r == sanitize_file(req.file_data, req.file_type)
    IN  IF r.raised = "none"
        THEN Handled("returned", r.value, ctx, r.calls)
        ELSE IF "ValueError" \in Classes(r.raised)
        THEN Handled("returned", <<>>,
                     set_details(set_code(ctx, "INVALID_ARGUMENT"), <<r.message>>),
                     r.calls)
        ELSE IF "Exception" \in Classes(r.raised)
        THEN Handled("returned", <<>>,
                     set_details(set_code(ctx, "INTERNAL"),
                                 <<"An unexpected error occurred: ", r.message>>),
                     r.calls)
        ELSE Handled("raised", <<>>, ctx, r.calls)

----------------------------------------------------------------------------
(* The requests a caller can send *)

MaxBytes == 25 * 1024 * 1024

FileTypes == {PDF, DOCX, TEXT, "image/png"}
Lengths == {1024, MaxBytes, MaxBytes + 1}
Faults == {"none", "ValueError", "UnicodeDecodeError", "RuntimeError"}
Items ==
    {TextItem(<<>>), TextItem(<<"a">>), TextItem(<<"b">>),
     TableItem(ExampleTable), PictureItem}

FileData ==
    [len : Lengths, fault : Faults, items : SeqsUpTo(Items, MaxItems)]

Requests == [file_type : FileTypes, file_data : FileData]

NoRequest ==
    [file_type |-> "", file_data |-> [len |-> 0, fault |-> "none", items |-> <<>>]]
NoResponse == [state |-> "none", markdown |-> <<>>]

----------------------------------------------------------------------------
(* Specification of one handler: a caller sends requests one after another *)

IdleCall ==
    /\ request = NoRequest
    /\ response = NoResponse
    /\ context = NewContext
    /\ trace = <<>>

IdleTable ==
    /\ table = NoTable
    /\ markdown_str = <<>>

\* a caller sends a request and SanitizeDocument handles it
Call ==
    /\ response.state = "none"
    /\ \E req \in Requests :
          LET out == SanitizeDocument(req, NewContext)
          IN  /\ request' = req
              /\ response' = out.response
              /\ context' = out.context
              /\ trace' = out.trace
    /\ UNCHANGED <<tableVars, poolVars>>

\* the call is over: nothing of it is kept
Discard ==
    /\ response.state # "none"
    /\ request' = NoRequest
    /\ response' = NoResponse
    /\ context' = NewContext
    /\ trace' = <<>>
    /\ UNCHANGED <<tableVars, poolVars>>

\* table_to_markdown is called on a table
Render ==
    /\ table = NoTable
    /\ \E t \in Tables :
          /\ table' = t
          /\ markdown_str' = table_to_markdown(t)
    /\ UNCHANGED <<callVars, poolVars>>

\* the string is handed to the caller
Forget ==
    /\ table # NoTable
    /\ table' = NoTable
    /\ markdown_str' = <<>>
    /\ UNCHANGED <<callVars, poolVars>>

----------------------------------------------------------------------------
(* main_grpc_server.py: serve *)
(* The pool threads are interchangeable: the model counts the threads that *)
(* hold no work item instead of naming them.  A work item is run to its    *)
(* end by the thread that took it, so a running request holds one thread.  *)
(* Callers send their requests in the order of their numbers.              *)

\* futures.ThreadPoolExecutor(max_workers=10)
max_workers == 10
\* grpc.server(...) is given no maximum_concurrent_rpcs: no limit
maximum_concurrent_rpcs == {}

NumRequests == max_workers + ExtraRequests
RequestIds == 1..NumRequests

Alphabet ==
    <<"A", "B", "C", "D", "E", "F", "G", "H", "I", "J", "K", "L", "M",
      "N", "O", "P", "Q", "R", "S", "T", "U", "V", "W", "X", "Y", "Z">>

\* the text only request r carries
Token(r) == Alphabet[r]

\* the request the r-th caller sends
PoolRequest(r) ==
    [file_type |-> CASE r % 4 = 0 -> TEXT
                     [] r % 4 = 1 -> PDF
                     [] r % 4 = 2 -> DOCX
                     [] OTHER -> PDF,
     file_data |-> [len |-> 1024,
                    fault |-> IF r % 5 = 0 THEN "RuntimeError" ELSE "none",
                    items |-> << TextItem(<<Token(r)>>),
                                 TableItem([columns |-> << <<Token(r)>> >>,
                                            rows |-> << << <<Token(r)>> >> >>]) >>]]

\* SanitizeDocument is a function of its request alone (it reads and writes
\* nothing else): its outcome, tabulated over the requests of the callers
PoolRequests == {PoolRequest(r) : r \in RequestIds}
HandlerOutcome == [req \in PoolRequests |-> SanitizeDocument(req, NewContext)]

NoReply == [state |-> "none", markdown |-> <<>>, context |-> NewContext]
Rejected == [state |-> "rejected", markdown |-> <<>>, context |-> NewContext]

IdlePool ==
    /\ status = [r \in RequestIds |-> "new"]
    /\ idle = max_workers
    /\ work_queue = <<>>
    /\ responses = [r \in RequestIds |-> NoReply]

Running == {r \in RequestIds : status[r] = "running"}
Active == {r \in RequestIds : status[r] \in {"queued", "running"}}

\* a pool that starts a thread for every work item
AlwaysFree == TRUE

\* whether a pool thread is free to take a work item
ThreadFree == idle > 0

\* the request most recently received, as if kept in a field of the service
LatestRequest(r) ==
    PoolRequest(CHOOSE m \in RequestIds :
                    /\ status[m] # "new"
                    /\ \A n \in RequestIds : status[n] # "new" => n <= m)

\* the request object the handler of RPC r is called with: its own
HandlerRequest(r) == PoolRequest(r)

\* an RPC arrives: grpc rejects it when maximum_concurrent_rpcs is reached,
\* and otherwise submits its handler to the executor
Submit ==
    /\ \E r \in RequestIds :
          /\ status[r] = "new"
          /\ \A n \in RequestIds : n < r => status[n] # "new"
          /\ IF \E limit \in maximum_concurrent_rpcs : Cardinality(Active) >= limit
             THEN /\ status' = [status EXCEPT ![r] = "rejected"]
                  /\ responses' = [responses EXCEPT ![r] = Rejected]
                  /\ UNCHANGED work_queue
             ELSE /\ status' = [status EXCEPT ![r] = "queued"]
                  /\ work_queue' = Append(work_queue, r)
                  /\ UNCHANGED responses
    /\ UNCHANGED <<idle, callVars, tableVars>>

\* a free pool thread takes the oldest work item
WorkerTake ==
    /\ ThreadFree
    /\ work_queue # <<>>
    /\ status' = [status EXCEPT ![Head(work_queue)] = "running"]
    /\ work_queue' = Tail(work_queue)
    /\ idle' = idle - 1
    /\ UNCHANGED <<responses, callVars, tableVars>>

\* the thread holding work item r runs the handler on it, the response is
\* sent and the thread is free again
WorkerRun(r) ==
    /\ status[r] = "running"
    /\ LET out == HandlerOutcome[HandlerRequest(r)]
       IN  responses' = [responses EXCEPT ![r] =
                            [state |-> out.response.state,
                             markdown |-> out.response.markdown,
                             context |-> out.context]]
    /\ status' = [status EXCEPT ![r] = "done"]
    /\ idle' = idle + 1
    /\ UNCHANGED <<work_queue, callVars, tableVars>>

----------------------------------------------------------------------------
(* Specifications *)

Init == IdleCall /\ IdleTable /\ IdlePool

Next == Call \/ Discard
Spec == Init /\ [][Next]_vars

TableNext == Render \/ Forget
TableSpec == Init /\ [][TableNext]_vars

PoolNext ==
    \/ Submit
    \/ WorkerTake
    \/ \E r \in RequestIds : WorkerRun(r)
PoolSpec == Init /\ [][PoolNext]_vars

\* a step of some pool thread
PoolWork == WorkerTake \/ \E r \in RequestIds : WorkerRun(r)

\* the operating system runs the pool threads and the handler returns: the
\* pool does not stand still for ever while one of its threads can step
FairPoolSpec == PoolSpec /\ WF_vars(PoolWork)

----------------------------------------------------------------------------
(* Vocabulary of the properties *)

Called == response.state # "none"
Extractors == {"sanitize_pdf", "sanitize_docx"}
ExtractorRan == \E i \in 1..Len(trace) : trace[i] \in Extractors
Succeeded == response.state = "returned" /\ context.codes = <<>>
FailedWith(code) == response.state = "returned" /\ context.codes = <<code>>
Unsupported ==
    /\ FailedWith("INVALID_ARGUMENT")
    /\ context.details = << <<"Unsupported file type">> >>
    /\ response.markdown = <<>>

Whitespace == {" ", "\n", "\t", "\r"}
NoOuterWhitespace(s) ==
    s = <<>> \/ (s[1] \notin Whitespace /\ s[Len(s)] \notin Whitespace)

\* C1: a request whose type the dispatcher does not recognize gets the
\* unsupported-type failure, no extractor runs (sanitize_file is the only
\* function entered) and the call answers INVALID_ARGUMENT.
C1_UnsupportedTypeRejected ==
    (Called /\ request.file_type \notin {PDF, DOCX}) =>
        /\ trace = <<"sanitize_file">>
        /\ ~ExtractorRan
        /\ Unsupported

C1_Witness ==
    /\ Called
    /\ request.file_type = "image/png"
    /\ request.file_data.items # <<>>
    /\ Unsupported

\* C2: validation precedes extraction: a request whose payload is longer
\* than 25 MiB is refused with an invalid-argument (too large) failure and
\* no extractor is entered for it.
C2_OversizeRefusedBeforeExtraction ==
    (Called /\ request.file_data.len > MaxBytes) =>
        /\ ~ExtractorRan
        /\ FailedWith("INVALID_ARGUMENT")

\* C3: every call ends in a returned response that is exactly one of: a
\* success carrying the markdown (the pipeline returned), INVALID_ARGUMENT
\* (it raised ValueError) or INTERNAL (it raised another exception); no
\* exception leaves the handler.
C3_EveryCallClassified ==
    Called =>
        LET r == sanitize_file(request.file_data, request.file_type)
        IN  /\ response.state = "returned"
            /\ Len(context.codes) <= 1
            /\ r.raised = "none" => Succeeded /\ response.markdown = r.value
            /\ r.raised # "none" =>
                  \/ FailedWith("INVALID_ARGUMENT")
                  \/ FailedWith("INTERNAL")
            /\ (r.raised # "none" /\ "ValueError" \notin Classes(r.raised)) =>
                  FailedWith("INTERNAL")

C3_Witness ==
    /\ Called
    /\ request.file_type = DOCX
    /\ request.file_data.fault = "RuntimeError"
    /\ FailedWith("INTERNAL")

\* C4: a failure raised inside an extractor, of any exception class, is
\* answered INTERNAL; INVALID_ARGUMENT is answered only for a failure found
\* before extraction (no extractor ran).
C4_ExtractorFailureIsInternal ==
    Called =>
        /\ (request.file_type \in {PDF, DOCX} /\ request.file_data.fault # "none")
              => FailedWith("INTERNAL")
        /\ FailedWith("INVALID_ARGUMENT") => ~ExtractorRan

C9_MarkdownTrimmed ==
    (Called /\ Succeeded /\ request.file_type \in {PDF, DOCX}) =>
        NoOuterWhitespace(response.markdown)

\* C10: a failed call returns an empty markdown with exactly one status code
\* (INVALID_ARGUMENT or INTERNAL) and one details string set on the context;
\* a successful call leaves the context untouched and returns the value of
\* sanitize_file.
C10_NoPartialResult ==
    Called =>
        LET r == sanitize_file(request.file_data, request.file_type)
        IN  /\ response.state = "returned"
            /\ r.raised # "none" =>
                  /\ response.markdown = <<>>
                  /\ Len(context.codes) = 1
                  /\ context.codes[1] \in {"INVALID_ARGUMENT", "INTERNAL"}
                  /\ Len(context.details) = 1
                  /\ context.details[1] # <<>>
            /\ r.raised = "none" =>
                  /\ context = NewContext
                  /\ response.markdown = r.value

C10_Witness ==
    /\ Called
    /\ request.file_type = PDF
    /\ request.file_data.fault = "none"
    /\ request.file_data.items = << TextItem(<<"a">>), TableItem(ExampleTable) >>
    /\ context = NewContext
    /\ response.markdown # <<>>

----------------------------------------------------------------------------
(* table_to_markdown *)

RECURSIVE Flatten(_)
\* concatenation of a sequence of strings
Flatten(ss) == IF ss = <<>> THEN <<>> ELSE ss[1] \o Flatten(Tail(ss))

RECURSIVE SplitLines(_)
\* the lines of a string, each ended by a newline (an unended rest is a line)
SplitLines(s) ==
    IF s = <<>> THEN <<>>
    ELSE IF \E i \in 1..Len(s) : s[i] = "\n"
    THEN LET i == CHOOSE k \in 1..Len(s) :
                      s[k] = "\n" /\ \A j \in 1..(k - 1) : s[j] # "\n"
         IN  << SubSeq(s, 1, i - 1) >> \o SplitLines(SubSeq(s, i + 1, Len(s)))
    ELSE << s >>

\* the line "| c1 | ... | cn |"
PipeRow(cells) ==
    <<"|">> \o Flatten([i \in 1..Len(cells) |-> <<" ">> \o cells[i] \o <<" ", "|">>])

\* whether a line is "|---" n times, closed by "|"
IsSeparator(line, n) ==
    /\ Len(line) = 4 * n + 1
    /\ \A k \in 1..Len(line) : line[k] = IF k % 4 = 1 THEN "|" ELSE "-"

ExampleRendering ==
    <<"|", " ", "a", " ", "|", " ", "b", " ", "|", "\n",
      "|", "-", "-", "-", "|", "-", "-", "-", "|", "\n",
      "|", " ", "1", " ", "|", " ", "2", " ", "|", "\n",
      "|", " ", "3", " ", "|", " ", "4", " ", "|", "\n">>

\* C7: a table of n >= 1 columns renders as one header line, one separator
\* line of n "|---" closed by "|", then one line per data row in row order,
\* every line ended by a newline; the table a,b / 1,2 / 3,4 renders as the
\* four lines of the example.
C7_TableRendering ==
    table # NoTable =>
        LET lines == SplitLines(markdown_str)
            n == Len(table.columns)
        IN  /\ markdown_str[Len(markdown_str)] = "\n"
            /\ Len(lines) = 2 + Len(table.rows)
            /\ lines[1] = PipeRow(table.columns)
            /\ IsSeparator(lines[2], n)
            /\ \A i \in 1..Len(table.rows) : lines[2 + i] = PipeRow(table.rows[i])
            /\ table = ExampleTable => markdown_str = ExampleRendering

C7_Witness ==
    /\ table = ExampleTable
    /\ markdown_str = ExampleRendering

----------------------------------------------------------------------------
(* The server under concurrent requests *)

\* what the handler answers to request r on its own
OwnReply(r) ==
    LET out == SanitizeDocument(PoolRequest(r), NewContext)
    IN  [state |-> out.response.state,
         markdown |-> out.response.markdown,
         context |-> out.context]

Chars(s) == {s[i] : i \in 1..Len(s)}

\* every response sent is the one the pipeline gives for that request's own
\* payload and type, and holds nothing of another request's payload
IndependentResults ==
    \A r \in RequestIds :
        responses[r].state # "none" =>
            /\ responses[r] = OwnReply(r)
            /\ \A other \in RequestIds \ {r} :
                  Token(other) \notin Chars(responses[r].markdown)

\* every request submitted so far has been answered (requests stay submitted
\* and answers stay, so reaching this for good means each one was answered)
AllSubmittedAnswered ==
    \A r \in RequestIds :
        status[r] # "new" => (status[r] = "done" /\ responses[r].state = "returned")

\* C6: with more requests than pool threads, every submitted request is
\* eventually answered, and every answer is the result for its own payload
\* and type with no content of another request, under every interleaving.
C6_AllCompleteIndependently ==
    /\ []IndependentResults
    /\ <>[]AllSubmittedAnswered

C6_Witness ==
    /\ \A r \in RequestIds : status[r] = "done"
    /\ Cardinality(RequestIds) > max_workers
    /\ \E r \in RequestIds : Token(r) \in Chars(responses[r].markdown)
    /\ IndependentResults

InQueue(r) == \E i \in 1..Len(work_queue) : work_queue[i] = r

\* C8: at most 10 requests are being handled at any moment, each of them
\* holding exactly one pool thread of its own; a request that is neither
\* handled nor answered waits in the queue exactly once, and none is rejected.
C8_PoolBound ==
    /\ Cardinality(Running) <= max_workers
    /\ idle >= 0
    /\ Cardinality(Running) + idle = max_workers
    /\ \A r \in RequestIds :
          /\ status[r] \in {"new", "queued", "running", "done"}
          /\ status[r] = "queued" <=> InQueue(r)
    /\ \A i, j \in 1..Len(work_queue) : work_queue[i] = work_queue[j] => i = j

C8_Witness ==
    /\ idle = 0
    /\ Cardinality(Running) = max_workers
    /\ Len(work_queue) = ExtraRequests

====
